---- MODULE Spec2Model ----
(***************************************************************************)
(* A model of file-downloader.py: the paginated search of                  *)
(* GoogleFileSearcher.search_files, the URL heuristic of                   *)
(* extract_file_url_from_result, download_file over a model of the         *)
(* destination directory, and the loop of main that ties them together.    *)
(*                                                                         *)
(* Python strings are sequences of one-character strings, so that lower(), *)
(* endswith(), "in", rstrip(), split() and slicing are computed character  *)
(* by character, as the interpreter computes them.                         *)
(***************************************************************************)
EXTENDS Integers, Sequences, FiniteSets, TLC

VARIABLES
    \* search_files
    num_results,   \* the requested count N
    results,       \* the local list "results"
    reqs,          \* the requests issued so far: <<[num, start], ...>>
    pages,         \* what each request got back: <<[kind, items], ...>>
    search_pc,     \* "idle", "loop", "break", "returned", "raised"
    ret,           \* the list search_files returned
    \* extract_file_url_from_result
    extension,     \* the requested extension
    result,        \* the item handed to the extractor
    extracted,     \* what the extractor returned
    ex_pc,         \* "idle", "call", "returned"
    \* download_file and the destination directory
    fs,            \* the directory: filename -> sequence of written chunks
    now,           \* int(time.time())
    dl_pc,         \* "idle", "request", "open", "stream", "returned", "raised"
    dl_url,        \* the url of the current call
    filename,      \* the filename the current call derived
    dl_ct,         \* the Content-Type header of the response (<<>> if it has none)
    dl_ret,        \* what the call returned
    fs0,           \* the directory when the current call started
    created,       \* whether the current call created the file at "filename"
    chunks,        \* number of chunks iter_content has yielded in the current call
    calls,         \* number of download_file calls started
    \* main
    main_pc,       \* "idle", "search", "extract", "loop", "call", "done"
    file_urls,     \* the list "file_urls"
    idx,           \* the loop index i (0-based), as enumerate gives it
    downloaded,    \* the counter "downloaded"
    attempts       \* the urls download_file was called with, in call order

searchVars == <<num_results, results, reqs, pages, search_pc, ret>>
extractVars == <<extension, result, extracted, ex_pc>>
dlVars == <<fs, now, dl_pc, dl_url, filename, dl_ct, dl_ret, fs0, created, chunks, calls>>
mainVars == <<main_pc, file_urls, idx, downloaded, attempts>>
vars == <<searchVars, extractVars, dlVars, mainVars>>

----------------------------------------------------------------------------
(* Bounds of the model.                                                    *)

MaxN == 21          \* largest requested count in SpecSearch (three pages)
MaxPage == 11       \* largest number of items one API response carries
MaxMetatags == 2    \* longest pagemap.metatags list of an item
MaxMetaUrls == 2    \* most metadata fields present in one item
MaxCalls == 2       \* download_file calls in one SpecDownload run
MaxTime == 1        \* the clock of SpecDownload runs from 0 to MaxTime
MaxChunks == 1      \* most chunks iter_content yields for one response
MaxMainN == 2       \* largest requested count in SpecMain
MaxMainPage == 2    \* largest number of items of a response in SpecMain

Min(a, b) == IF a <= b THEN a ELSE b
Max(a, b) == IF a >= b THEN a ELSE b

----------------------------------------------------------------------------
(* Python's str operations, on sequences of characters.                    *)

UpperChars == <<"A", "B", "C", "D", "E", "F", "G", "H", "I", "J", "K", "L", "M",
                "N", "O", "P", "Q", "R", "S", "T", "U", "V", "W", "X", "Y", "Z">>
LowerChars == <<"a", "b", "c", "d", "e", "f", "g", "h", "i", "j", "k", "l", "m",
                "n", "o", "p", "q", "r", "s", "t", "u", "v", "w", "x", "y", "z">>

\* one character of str.lower()
LowerChar(c) ==
    IF \E i \in 1..26 : UpperChars[i] = c
    THEN LowerChars[CHOOSE i \in 1..26 : UpperChars[i] = c]
    ELSE c

\* s.lower()
Lower(s) == [i \in 1..Len(s) |-> LowerChar(s[i])]

\* s.endswith(suf)
EndsWith(s, suf) ==
    /\ Len(suf) <= Len(s)
    /\ SubSeq(s, Len(s) - Len(suf) + 1, Len(s)) = suf

\* sub in s
Contains(sub, s) ==
    \E i \in 1..(Len(s) - Len(sub) + 1) : SubSeq(s, i, i + Len(sub) - 1) = sub

\* s.rstrip('/')
RECURSIVE RStripSlash(_)
RStripSlash(s) ==
    IF Len(s) > 0 /\ s[Len(s)] = "/" THEN RStripSlash(SubSeq(s, 1, Len(s) - 1)) ELSE s

\* s.find(c) as a 1-based index, 0 when c does not occur
Find(s, c) ==
    IF \E i \in 1..Len(s) : s[i] = c
    THEN CHOOSE i \in 1..Len(s) : s[i] = c /\ \A j \in 1..(i - 1) : s[j] # c
    ELSE 0

\* s.rfind(c) as a 1-based index, 0 when c does not occur
RFind(s, c) ==
    IF \E i \in 1..Len(s) : s[i] = c
    THEN CHOOSE i \in 1..Len(s) : s[i] = c /\ \A j \in (i + 1)..Len(s) : s[j] # c
    ELSE 0

\* s.split(c): the pieces between the occurrences of c, empty pieces kept
RECURSIVE Split(_, _)
Split(s, c) ==
    LET i == Find(s, c)
    IN  IF i = 0 THEN <<s>>
        ELSE <<SubSeq(s, 1, i - 1)>> \o Split(SubSeq(s, i + 1, Len(s)), c)

\* s.replace('/', '_')
ReplaceSlash(s) == [i \in 1..Len(s) |-> IF s[i] = "/" THEN "_" ELSE s[i]]

\* s[:n] for n >= 0
Take(s, n) == SubSeq(s, 1, Min(n, Len(s)))

\* the mutant of Slice: the list is not cut
SliceAll(xs, n) == xs

\* xs[:n], Python's slice: a negative n counts from the end
Slice(xs, n) ==
    IF n >= 0 THEN SubSeq(xs, 1, Min(n, Len(xs)))
    ELSE SubSeq(xs, 1, Max(Len(xs) + n, 0))

DigitChars == <<"0", "1", "2", "3", "4", "5", "6", "7", "8", "9">>

\* str(n) for an int n >= 0, as the f-string formats the timestamp
RECURSIVE IntToStr(_)
IntToStr(n) ==
    IF n < 10 THEN <<DigitChars[n + 1]>>
    ELSE IntToStr(n \div 10) \o <<DigitChars[(n % 10) + 1]>>

\* Python's None; no string of characters equals it
None == <<"None">>

----------------------------------------------------------------------------
(* extract_file_url_from_result.  A result item and a metatag are Python   *)
(* dicts: functions whose domain is the set of keys present.               *)

Pre == <<"h", "t", "t", "p", ":", "/", "/", "h">>
S_pdf == <<"p", "d", "f">>
S_PDF == <<"P", "D", "F">>
U_a_pdf == Pre \o <<"/", "a", ".", "p", "d", "f">>
U_A_PDF == Pre \o <<"/", "A", ".", "P", "D", "F">>
U_d_a_pdf == Pre \o <<"/", "d", "/", "a", ".", "p", "d", "f">>
U_xpdf == Pre \o <<"/", "x", "p", "d", "f">>
U_pdf_x == Pre \o <<"/", "p", "d", "f", "/", "x">>
U_x == Pre \o <<"/", "x">>
U_m_pdf == Pre \o <<"/", "m", ".", "p", "d", "f">>
U_n_PDF == Pre \o <<"/", "n", ".", "P", "D", "F">>
U_m == Pre \o <<"/", "m">>

\* the three metadata fields, in the order the code tries them
MetaKeys == <<"og:url", "url", "citation_pdf_url">>

\* f'.{extension.lower()}'
DotExt(ext) == <<".">> \o Lower(ext)

\* url.lower().endswith(f'.{extension.lower()}')
HasExtension(url, ext) == EndsWith(Lower(url), DotExt(ext))

\* the inner loop "for key in [...]" over one metatag, from the k-th key on
RECURSIVE ScanKeys(_, _, _)
ScanKeys(metatag, k, ext) ==
    IF k > Len(MetaKeys) THEN None
    ELSE IF MetaKeys[k] \in DOMAIN metatag /\ HasExtension(metatag[MetaKeys[k]], ext)
         THEN metatag[MetaKeys[k]]
         ELSE ScanKeys(metatag, k + 1, ext)

\* the mutant of ScanTags: the metatags are scanned from the last to the first
RECURSIVE ScanTagsReversed(_, _, _)
ScanTagsReversed(metatags, i, ext) ==
    IF i > Len(metatags) THEN None
    ELSE LET j == Len(metatags) + 1 - i
             u == ScanKeys(metatags[j], 1, ext)
         IN  IF u # None THEN u ELSE ScanTagsReversed(metatags, i + 1, ext)

\* the outer loop "for metatag in result['pagemap']['metatags']", from the i-th on
RECURSIVE ScanTags(_, _, _)
ScanTags(metatags, i, ext) ==
    IF i > Len(metatags) THEN None
    ELSE LET u == ScanKeys(metatags[i], 1, ext)
         IN  IF u # None THEN u ELSE ScanTags(metatags, i + 1, ext)

\* the metadata rule: None when it returns nothing
ScanMetadata(res, ext) ==
    IF "pagemap" \in DOMAIN res /\ "metatags" \in DOMAIN res["pagemap"]
    THEN ScanTags(res["pagemap"]["metatags"], 1, ext)
    ELSE None

\* the mutant of ExtractFileUrl: the metadata is consulted before the link
ExtractMetadataFirst(res, ext) ==
    IF ScanMetadata(res, ext) # None
    THEN ScanMetadata(res, ext)
    ELSE IF "link" \in DOMAIN res /\ HasExtension(res["link"], ext)
         THEN res["link"]
         ELSE IF "link" \in DOMAIN res /\ Contains(Lower(ext), Lower(res["link"]))
              THEN res["link"]
              ELSE None

\* extract_file_url_from_result(result, extension)
ExtractFileUrl(res, ext) ==
    IF "link" \in DOMAIN res /\ HasExtension(res["link"], ext)
    THEN res["link"]
    ELSE IF ScanMetadata(res, ext) # None
         THEN ScanMetadata(res, ext)
         ELSE IF "link" \in DOMAIN res /\ Contains(Lower(ext), Lower(res["link"]))
              THEN res["link"]
              ELSE None

\* the inputs of SpecExtract
Extensions == {S_pdf, S_PDF}
LinkPool == {U_a_pdf, U_A_PDF, U_xpdf, U_pdf_x, U_x}
MetaPool == {U_m_pdf, U_n_PDF, U_m}
KeySet == {MetaKeys[k] : k \in 1..Len(MetaKeys)}

\* the metatags with exactly n fields present
MetatagsWith(n) ==
    UNION {[K -> MetaPool] : K \in {K \in SUBSET KeySet : Cardinality(K) = n}}

\* the metatags lists of the given length with at most "budget" fields present
RECURSIVE MetatagLists(_, _)
MetatagLists(len, budget) ==
    IF len = 0 THEN {<<>>}
    ELSE UNION {{<<d>> \o rest : d \in MetatagsWith(n),
                                 rest \in MetatagLists(len - 1, budget - n)}
                : n \in 0..Min(budget, Len(MetaKeys))}

\* a pagemap: without 'metatags', or with a metatags list
Pagemaps ==
    {[other \in {"cse_image"} |-> <<>>]}
    \cup {[metatags \in {"metatags"} |-> m] :
            m \in UNION {MetatagLists(len, MaxMetaUrls) : len \in 0..MaxMetatags}}

\* the result items: 'link' and 'pagemap' are each present or not
Items ==
    {<<>>}
    \cup {("link" :> l) : l \in LinkPool}
    \cup {("pagemap" :> p) : p \in Pagemaps}
    \cup {("link" :> l) @@ ("pagemap" :> p) : l \in LinkPool, p \in Pagemaps}

----------------------------------------------------------------------------
(* The states in which a part of the program is not running.               *)

SearchIdle ==
    /\ num_results = 0 /\ results = <<>> /\ reqs = <<>> /\ pages = <<>>
    /\ search_pc = "idle" /\ ret = <<>>

ExtractIdle ==
    /\ extension = S_pdf /\ result = <<>> /\ extracted = None /\ ex_pc = "idle"

DownloadIdle ==
    /\ fs = <<>> /\ now = 0 /\ dl_pc = "idle" /\ dl_url = None /\ filename = None
    /\ dl_ct = None /\ dl_ret = None /\ fs0 = <<>> /\ created = FALSE /\ chunks = 0
    /\ calls = 0

MainIdle ==
    /\ main_pc = "idle" /\ file_urls = <<>> /\ idx = 0 /\ downloaded = 0
    /\ attempts = <<>>

----------------------------------------------------------------------------
(* SpecExtract: extract_file_url_from_result applied to every item and     *)
(* extension of the bounded input sets.                                    *)

InitExtract ==
    /\ extension \in Extensions
    /\ result \in Items
    /\ extracted = None
    /\ ex_pc = "call"
    /\ SearchIdle /\ DownloadIdle /\ MainIdle

ExtractCall ==
    /\ ex_pc = "call"
    /\ extracted' = ExtractFileUrl(result, extension)
    /\ ex_pc' = "returned"
    /\ UNCHANGED <<extension, result, searchVars, dlVars, mainVars>>

NextExtract == ExtractCall

SpecExtract == InitExtract /\ [][NextExtract]_vars

\* the item's primary link ends with '.' + the requested extension, letter case ignored
LinkHasExtension ==
    /\ "link" \in DOMAIN result
    /\ \E n \in 1..Len(result["link"]) :
          /\ n = Len(extension) + 1
          /\ Lower(SubSeq(result["link"], Len(result["link"]) - n + 1, Len(result["link"])))
                = <<".">> \o Lower(extension)

\* the item's metatags list, empty when the item has none
MetatagsOf(res) ==
    IF "pagemap" \in DOMAIN res /\ "metatags" \in DOMAIN res["pagemap"]
    THEN res["pagemap"]["metatags"]
    ELSE <<>>

\* the positions <<i, k>> (metatag i, field k) whose url has the extension
MatchingFields ==
    {f \in (1..Len(MetatagsOf(result))) \X (1..Len(MetaKeys)) :
        /\ MetaKeys[f[2]] \in DOMAIN MetatagsOf(result)[f[1]]
        /\ EndsWith(Lower(MetatagsOf(result)[f[1]][MetaKeys[f[2]]]),
                    <<".">> \o Lower(extension))}

\* the first of them in scan order: metatags in list order, fields in key order
FirstMatchingField ==
    CHOOSE f \in MatchingFields :
        \A g \in MatchingFields : f[1] < g[1] \/ (f[1] = g[1] /\ f[2] <= g[2])

\* the extension occurs somewhere in the primary link, letter case ignored
LinkMentionsExtension ==
    /\ "link" \in DOMAIN result
    /\ \E i \in 1..Len(result["link"]) :
          /\ i + Len(extension) - 1 <= Len(result["link"])
          /\ Lower(SubSeq(result["link"], i, i + Len(extension) - 1)) = Lower(extension)

\* C2: an item whose primary link ends with the requested extension yields
\* exactly that link, whatever its metadata fields hold.
C2_LinkWithExtensionYieldsLink ==
    (ex_pc = "returned" /\ LinkHasExtension) => extracted = result["link"]

\* a link with the extension, next to metadata that also offers a url with it
C2_Witness ==
    /\ ex_pc = "returned"
    /\ LinkHasExtension
    /\ MatchingFields # {}
    /\ extracted = result["link"]

\* C8: the three rules apply in a fixed priority, first match wins: (a) the
\* link with the extension, else (b) the first matching metadata url in scan
\* order, else (c) the link that mentions the extension, else no url.
C8_RulePriority ==
    ex_pc = "returned" =>
        /\ LinkHasExtension => extracted = result["link"]
        /\ (~LinkHasExtension /\ MatchingFields # {}) =>
              extracted = MetatagsOf(result)[FirstMatchingField[1]][MetaKeys[FirstMatchingField[2]]]
        /\ (~LinkHasExtension /\ MatchingFields = {} /\ LinkMentionsExtension) =>
              extracted = result["link"]
        /\ (~LinkHasExtension /\ MatchingFields = {} /\ ~LinkMentionsExtension) =>
              extracted = None

\* rule (b) decides between two matching fields of different metatags while
\* rule (c) would have matched the link as well
C8_Witness ==
    /\ ex_pc = "returned"
    /\ ~LinkHasExtension
    /\ LinkMentionsExtension
    /\ \E f, g \in MatchingFields :
          /\ f[1] < g[1]
          /\ MetatagsOf(result)[f[1]][MetaKeys[f[2]]] # MetatagsOf(result)[g[1]][MetaKeys[g[2]]]
    /\ extracted # result["link"]
    /\ extracted # None

----------------------------------------------------------------------------
(* GoogleFileSearcher.search_files.  One action per iteration of the loop  *)
(* (the request, its response and what the code does with it), one for the *)
(* return statement.                                                       *)

PageStep == 10        \* the step of range(1, num_results + 1, 10)
MaxPerRequest == 10   \* the 10 of min(10, num_results - len(results))

\* the mutant of RangeLen: the last, partial page is never asked for
RangeLenFloor(n) == IF n >= 1 THEN n \div PageStep ELSE 0

\* len(range(1, n + 1, 10))
RangeLen(n) == IF n >= 1 THEN (n - 1) \div PageStep + 1 ELSE 0

\* the k-th element (k = 0, 1, ...) of range(1, n + 1, 10)
RangeItem(k) == 1 + PageStep * k

\* the mutant of ItemsToFetch: a full page is asked for every time
ItemsToFetchFullPage(n, gathered) == MaxPerRequest

\* items_to_fetch = min(10, num_results - len(results))
ItemsToFetch(n, gathered) == Min(MaxPerRequest, n - gathered)

\* the outcomes of requests.get / raise_for_status / response.json that raise
SearchFailures == {"HTTPError429", "HTTPError", "RequestException", "JSONDecodeError"}

\* the mutant of SearchHandler: a rate-limited page is skipped, the loop goes on
SearchHandlerContinue(kind) == IF kind = "HTTPError429" THEN "loop" ELSE "break"

\* the except clauses of the loop: where control goes after the exception
SearchHandler(kind) ==
    IF kind \in {"HTTPError429", "HTTPError"} THEN "break"
    ELSE IF kind = "RequestException" THEN "break"
    ELSE IF kind = "JSONDecodeError" THEN "break"
    ELSE "raised"

\* a response whose JSON has 'items'
ItemsPage(items) == [kind |-> "items", items |-> items]
\* a response whose JSON has no 'items'
NoItemsPage == [kind |-> "noitems", items |-> <<>>]
\* a request that raised
FailedPage(e) == [kind |-> e, items |-> <<>>]

\* one iteration of "for start_index in range(...)" with the given response
SearchIteration(resp) ==
    /\ search_pc = "loop"
    /\ Len(reqs) < RangeLen(num_results)
    /\ reqs' = Append(reqs, [num |-> ItemsToFetch(num_results, Len(results)),
                             start |-> RangeItem(Len(reqs))])
    /\ pages' = Append(pages, resp)
    /\ IF resp.kind = "items"
       THEN /\ results' = results \o resp.items
            /\ search_pc' = IF Len(results') >= num_results THEN "break" ELSE "loop"
       ELSE IF resp.kind = "noitems"
            THEN /\ results' = results
                 /\ search_pc' = "break"
            ELSE /\ results' = results
                 /\ search_pc' = SearchHandler(resp.kind)
    /\ UNCHANGED <<num_results, ret>>

\* "return results[:num_results]", after a break or when the range is exhausted
SearchReturn ==
    /\ \/ search_pc = "break"
       \/ search_pc = "loop" /\ Len(reqs) >= RangeLen(num_results)
    /\ ret' = Slice(results, num_results)
    /\ search_pc' = "returned"
    /\ UNCHANGED <<num_results, results, reqs, pages>>

\* SpecSearch: the items of the k-th response are <<k, 1>>, <<k, 2>>, ...
PageOfSize(k, size) == ItemsPage([i \in 1..size |-> <<k, i>>])

SearchResponses(k) ==
    {PageOfSize(k, size) : size \in 0..MaxPage}
    \cup {NoItemsPage} \cup {FailedPage(e) : e \in SearchFailures}

InitSearch ==
    /\ num_results \in -1..MaxN
    /\ results = <<>> /\ reqs = <<>> /\ pages = <<>> /\ ret = <<>>
    /\ search_pc = "loop"
    /\ ExtractIdle /\ DownloadIdle /\ MainIdle

SearchRequest ==
    /\ \E resp \in SearchResponses(Len(reqs) + 1) : SearchIteration(resp)
    /\ UNCHANGED <<extractVars, dlVars, mainVars>>

SearchDone ==
    /\ SearchReturn
    /\ UNCHANGED <<extractVars, dlVars, mainVars>>

NextSearch == SearchRequest \/ SearchDone

SpecSearch == InitSearch /\ [][NextSearch]_vars

\* the item lists of the first k responses, concatenated in the order received
RECURSIVE Received(_)
Received(k) == IF k = 0 THEN <<>> ELSE Received(k - 1) \o pages[k].items

\* the number of items the first k responses carried
RECURSIVE Gathered(_)
Gathered(k) == IF k = 0 THEN 0 ELSE Gathered(k - 1) + Len(pages[k].items)

IsFailure(page) == page.kind \in SearchFailures
HasNoItems(page) == page.kind = "noitems" \/ (page.kind = "items" /\ page.items = <<>>)

\* the least c with 10 * c >= n, for n >= 1
CeilTenth(n) == CHOOSE c \in 1..n : 10 * c >= n /\ 10 * (c - 1) < n

\* C1: the list returned holds at most N items (N a count, N >= 0) and is a
\* prefix of the concatenation of the item lists of the pages received.
C1_AtMostNAndPrefix ==
    search_pc = "returned" =>
        /\ num_results >= 0 => Len(ret) <= num_results
        /\ Len(ret) <= Len(Received(Len(pages)))
        /\ \A i \in 1..Len(ret) : ret[i] = Received(Len(pages))[i]

\* two pages were received, together more than N items, and N came back
C1_Witness ==
    /\ search_pc = "returned"
    /\ Len(pages) >= 2
    /\ Len(Received(Len(pages))) > num_results
    /\ Len(ret) = num_results

\* C7 as stated: fewer than N items come back only if some response had no
\* items or some request failed.
C7_ShortOnlyIfNoItemsOrFailure ==
    (search_pc = "returned" /\ Len(ret) < num_results) =>
        \E k \in 1..Len(pages) : HasNoItems(pages[k]) \/ IsFailure(pages[k])

\* C7 amended: fewer than N items come back only if some response had no
\* items, some request failed, or some response carried fewer items than its
\* request asked for; and the list is complete when none of these happened.
C7_ShortOnlyIfNoItemsFailureOrShortPage ==
    search_pc = "returned" =>
        /\ Len(ret) < num_results =>
              \E k \in 1..Len(pages) :
                  \/ HasNoItems(pages[k])
                  \/ IsFailure(pages[k])
                  \/ Len(pages[k].items) < reqs[k].num
        /\ (/\ num_results >= 0
            /\ \A k \in 1..Len(pages) :
                  pages[k].kind = "items" /\ Len(pages[k].items) >= reqs[k].num)
              => Len(ret) = num_results

\* every request succeeded and carried at least one item, one carried fewer
\* than asked for, the range ran out, and fewer than N items came back
C7_Witness ==
    /\ search_pc = "returned"
    /\ Len(ret) < num_results
    /\ Len(pages) >= 2
    /\ \A k \in 1..Len(pages) : pages[k].kind = "items" /\ Len(pages[k].items) >= 1

\* C9: a failed request is the last request, the items of the pages before
\* it are returned (cut to N), and no exception leaves search_files.
C9_FailureStopsAndReturnsGathered ==
    /\ search_pc # "raised"
    /\ \A k \in 1..Len(pages) :
          IsFailure(pages[k]) => (k = Len(pages) /\ search_pc \in {"break", "returned"})
    /\ (search_pc = "returned" /\ Len(pages) >= 1 /\ IsFailure(pages[Len(pages)])) =>
          /\ Len(ret) = Min(num_results, Gathered(Len(pages) - 1))
          /\ \A i \in 1..Len(ret) : ret[i] = Received(Len(pages) - 1)[i]

\* the third request failed after two pages with items, and items came back
C9_Witness ==
    /\ search_pc = "returned"
    /\ Len(pages) = 3
    /\ IsFailure(pages[3])
    /\ Len(ret) > MaxPerRequest

\* C10: every request asks for 1..10 items and for no more than are still
\* missing, the k-th (k = 0, 1, ...) starts at 1 + 10k, at most ceil(N/10)
\* requests are issued, none for N <= 0, and the call is never stuck.
C10_RequestParameters ==
    /\ \A k \in 1..Len(reqs) :
          /\ 1 <= reqs[k].num /\ reqs[k].num <= 10
          /\ reqs[k].num <= num_results - Gathered(k - 1)
          /\ reqs[k].start = 1 + 10 * (k - 1)
    /\ num_results >= 1 => Len(reqs) <= CeilTenth(num_results)
    /\ num_results <= 0 => reqs = <<>>
    /\ search_pc \in {"loop", "break"} => ENABLED NextSearch

\* three requests, the last for fewer than 10 items
C10_Witness ==
    /\ search_pc = "returned"
    /\ Len(reqs) = 3
    /\ reqs[3].num < 10
    /\ Len(ret) = num_results

----------------------------------------------------------------------------
(* download_file.  The destination directory is a function from the names  *)
(* of the files in it to their contents, a content being the sequence of   *)
(* chunks written; a file of zero bytes has the content <<>>.              *)

S_dothtml == <<".", "h", "t", "m", "l">>
S_texthtml == <<"t", "e", "x", "t", "/", "h", "t", "m", "l">>
S_download == <<"d", "o", "w", "n", "l", "o", "a", "d">>
S_download_ == <<"d", "o", "w", "n", "l", "o", "a", "d", "_">>
CT_html == <<"t", "e", "x", "t", "/", "h", "t", "m", "l", ";", " ", "c", "h", "a", "r", "s", "e", "t", "=", "u", "t", "f", "-", "8">>
CT_HTML == <<"T", "e", "x", "t", "/", "H", "T", "M", "L">>
CT_pdf == <<"a", "p", "p", "l", "i", "c", "a", "t", "i", "o", "n", "/", "p", "d", "f">>
U_a_html == Pre \o <<"/", "a", ".", "h", "t", "m", "l">>
U_A_HTML == Pre \o <<"/", "A", ".", "H", "T", "M", "L">>
U_a_pdf_q == Pre \o <<"/", "a", ".", "p", "d", "f", "/", "?", "q">>
U_a_pdf_b == Pre \o <<"/", "a", ".", "p", "d", "f", "/", "b">>
F_a_pdf == <<"a", ".", "p", "d", "f">>

MaxExtLen == 4   \* the 4 of [:4]

SchemeChars ==
    {UpperChars[i] : i \in 1..26} \cup {LowerChars[i] : i \in 1..26}
    \cup {DigitChars[i] : i \in 1..10} \cup {"+", "-", "."}

\* urlsplit: the url after its scheme and the ':' (the whole url if it has none)
AfterScheme(url) ==
    LET i == Find(url, ":")
    IN  IF /\ i > 1
           /\ LowerChar(url[1]) \in {LowerChars[k] : k \in 1..26}
           /\ \A j \in 1..(i - 1) : url[j] \in SchemeChars
        THEN SubSeq(url, i + 1, Len(url))
        ELSE url

\* urlsplit: what follows the network location ('//host', up to '/', '?' or '#')
AfterNetloc(rest) ==
    IF Take(rest, 2) = <<"/", "/">>
    THEN LET ends == {j \in 3..Len(rest) : rest[j] \in {"/", "?", "#"}}
             delim == IF ends = {} THEN Len(rest) + 1
                      ELSE CHOOSE j \in ends : \A k \in ends : j <= k
         IN  SubSeq(rest, delim, Len(rest))
    ELSE rest

\* s up to the first occurrence of c (the whole of s if there is none)
Before(s, c) == IF Find(s, c) = 0 THEN s ELSE SubSeq(s, 1, Find(s, c) - 1)

\* urlparse's _splitparams: the path without the ';params' of its last segment
WithoutParams(path) ==
    LET tail == SubSeq(path, RFind(path, "/") + 1, Len(path))
    IN  SubSeq(path, 1, RFind(path, "/")) \o Before(tail, ";")

\* urlparse(url).path
UrlPath(url) == WithoutParams(Before(Before(AfterNetloc(AfterScheme(url)), "#"), "?"))

\* os.path.basename(path)
Basename(path) == SubSeq(path, RFind(path, "/") + 1, Len(path))

\* [seg for seg in pieces if seg]
NonEmpty(pieces) == SelectSeq(pieces, LAMBDA seg : seg # <<>>)

\* the fallback name f"download_{timestamp}.{extension}"
TimestampName(clean_url, timestamp) ==
    LET url_parts == Split(clean_url, ".")
        ext == IF Len(url_parts) > 1
               THEN Take(Split(url_parts[Len(url_parts)], "/")[1], MaxExtLen)
               ELSE S_download
    IN  S_download_ \o IntToStr(timestamp) \o <<".">> \o ext

\* the filename download_file derives from url at time "timestamp"
DeriveFilename(url, timestamp) ==
    LET clean_url == RStripSlash(url)
        path == UrlPath(clean_url)
        base == Basename(path)
        path_segments == NonEmpty(Split(path, "/"))
        name == IF base = <<>> \/ ~Contains(<<".">>, base)
                THEN IF /\ path_segments # <<>>
                        /\ Contains(<<".">>, path_segments[Len(path_segments)])
                     THEN path_segments[Len(path_segments)]
                     ELSE TimestampName(clean_url, timestamp)
                ELSE base
    IN  ReplaceSlash(RStripSlash(name))

\* the mutant of PathExists: the check for an existing file is lost
PathExistsNever(dir, name) == FALSE

\* os.path.exists(filepath)
PathExists(dir, name) == name \in DOMAIN dir

\* the mutant of HtmlRejected: the header is compared without .lower()
HtmlRejectedCaseSensitive(content_type, url) ==
    /\ Contains(S_texthtml, content_type)
    /\ ~EndsWith(Lower(url), S_dothtml)

\* 'text/html' in content_type and not url.lower().endswith('.html'),
\* content_type being the header in lower case ('' when there is none)
HtmlRejected(content_type, url) ==
    /\ Contains(S_texthtml, Lower(content_type))
    /\ ~EndsWith(Lower(url), S_dothtml)

\* what the body of download_file can raise
RequestErrors == {"Timeout", "ConnectionError", "HTTPError"}
StreamErrors == {"ConnectionError", "ChunkedEncodingError", "OSError"}
\* the subclasses of requests.RequestException among them
RequestExceptions == {"Timeout", "ConnectionError", "HTTPError", "ChunkedEncodingError"}

\* the subclasses of Exception among them: all of them
Exceptions == RequestExceptions \cup {"OSError"}

\* the mutant of DlCaught: the clause "except Exception" is missing
DlCaughtRequestsOnly(e) == e = "Timeout" \/ e \in RequestExceptions

\* the except clauses of download_file: Timeout, RequestException, Exception
DlCaught(e) == e = "Timeout" \/ e \in RequestExceptions \/ e \in Exceptions

\* the file at "name" is created empty, or truncated: open(filepath, 'wb')
OpenForWriting(dir, name) == (name :> <<>>) @@ dir

\* f.write(chunk)
WriteChunk(dir, name, chunk) == [dir EXCEPT ![name] = Append(@, chunk)]

\* os.remove(filepath)
Remove(dir, name) == [n \in (DOMAIN dir) \ {name} |-> dir[n]]

\* exception e is raised inside the try block
DlRaise(e) ==
    /\ dl_pc' = IF DlCaught(e) THEN "returned" ELSE "raised"
    /\ dl_ret' = IF DlCaught(e) THEN FALSE ELSE None

\* download_file(url) is called: the filename is derived and, if a file of
\* that name exists, the call returns False
DlBegin(url) ==
    /\ dl_pc \in {"idle", "returned"}
    /\ dl_url' = url
    /\ filename' = DeriveFilename(url, now)
    /\ fs0' = fs
    /\ created' = FALSE
    /\ chunks' = 0
    /\ dl_ct' = None
    /\ calls' = calls + 1
    /\ IF PathExists(fs, filename')
       THEN dl_pc' = "returned" /\ dl_ret' = FALSE
       ELSE dl_pc' = "request" /\ dl_ret' = None
    /\ UNCHANGED <<fs, now>>

\* requests.get or raise_for_status raises e; an HTTP error response has headers
DlRequestFails(e, content_type) ==
    /\ dl_pc = "request"
    /\ dl_ct' = IF e = "HTTPError" THEN content_type ELSE None
    /\ DlRaise(e)
    /\ UNCHANGED <<fs, now, dl_url, filename, fs0, created, chunks, calls>>

\* the response arrives with the given Content-Type (<<>> when it has none):
\* an HTML page for a non-.html url is skipped
DlResponse(content_type) ==
    /\ dl_pc = "request"
    /\ dl_ct' = content_type
    /\ IF HtmlRejected(content_type, dl_url)
       THEN dl_pc' = "returned" /\ dl_ret' = FALSE
       ELSE dl_pc' = "open" /\ dl_ret' = None
    /\ UNCHANGED <<fs, now, dl_url, filename, fs0, created, chunks, calls>>

\* open(filepath, 'wb') creates the file
DlOpen ==
    /\ dl_pc = "open"
    /\ fs' = OpenForWriting(fs, filename)
    /\ created' = TRUE
    /\ dl_pc' = "stream"
    /\ UNCHANGED <<now, dl_url, filename, dl_ct, dl_ret, fs0, chunks, calls>>

\* open(filepath, 'wb') raises OSError: no file is created
DlOpenFails ==
    /\ dl_pc = "open"
    /\ DlRaise("OSError")
    /\ UNCHANGED <<fs, now, dl_url, filename, dl_ct, fs0, created, chunks, calls>>

\* iter_content yields a chunk: "if chunk: f.write(chunk)"
DlChunk(chunk) ==
    /\ dl_pc = "stream"
    /\ chunks < MaxChunks
    /\ chunks' = chunks + 1
    /\ fs' = IF chunk # <<>> THEN WriteChunk(fs, filename, chunk) ELSE fs
    /\ UNCHANGED <<now, dl_pc, dl_url, filename, dl_ct, dl_ret, fs0, created, calls>>

\* iter_content or f.write raises e: the with block closes the file, the
\* except clause returns False
DlStreamFails(e) ==
    /\ dl_pc = "stream"
    /\ DlRaise(e)
    /\ UNCHANGED <<fs, now, dl_url, filename, dl_ct, fs0, created, chunks, calls>>

\* the body ends: the file is closed, an empty file is removed
DlFinish ==
    /\ dl_pc = "stream"
    /\ IF Len(fs[filename]) = 0
       THEN fs' = Remove(fs, filename) /\ dl_ret' = FALSE
       ELSE fs' = fs /\ dl_ret' = TRUE
    /\ dl_pc' = "returned"
    /\ UNCHANGED <<now, dl_url, filename, dl_ct, fs0, created, chunks, calls>>

ContentTypes == {CT_html, CT_HTML, CT_pdf, <<>>}
Chunks == {<<>>, <<"c">>}

\* the steps of a call in progress, over all their inputs; the caller waits
Other == <<searchVars, extractVars, mainVars>>

RequestFails ==
    /\ \E e \in RequestErrors, ct \in ContentTypes : DlRequestFails(e, ct)
    /\ UNCHANGED Other

Response ==
    /\ \E ct \in ContentTypes : DlResponse(ct)
    /\ UNCHANGED Other

Open == DlOpen /\ UNCHANGED Other

OpenFails == DlOpenFails /\ UNCHANGED Other

Chunk ==
    /\ \E chunk \in Chunks : DlChunk(chunk)
    /\ UNCHANGED Other

StreamFails ==
    /\ \E e \in StreamErrors : DlStreamFails(e)
    /\ UNCHANGED Other

Finish == DlFinish /\ UNCHANGED Other

----------------------------------------------------------------------------
(* SpecDownload: up to MaxCalls calls of download_file, with any urls, into *)
(* a directory that is empty or holds a.pdf, while the clock may advance.  *)

DownloadUrls == {U_a_pdf, U_d_a_pdf, U_a_pdf_q, U_a_pdf_b, U_x, U_a_html, U_A_HTML}
InitialDirs == {<<>>, (F_a_pdf :> <<"old">>)}

InitDownload ==
    /\ fs \in InitialDirs
    /\ now = 0 /\ dl_pc = "idle" /\ dl_url = None /\ filename = None
    /\ dl_ct = None /\ dl_ret = None /\ fs0 = fs /\ created = FALSE /\ chunks = 0
    /\ calls = 0
    /\ SearchIdle /\ ExtractIdle /\ MainIdle

DownloadCall ==
    /\ calls < MaxCalls
    /\ \E url \in DownloadUrls : DlBegin(url)
    /\ UNCHANGED <<searchVars, extractVars, mainVars>>

Tick ==
    /\ now < MaxTime
    /\ now' = now + 1
    /\ UNCHANGED <<fs, dl_pc, dl_url, filename, dl_ct, dl_ret, fs0, created, chunks, calls>>
    /\ UNCHANGED <<searchVars, extractVars, mainVars>>

NextDownload ==
    \/ DownloadCall
    \/ RequestFails \/ Response \/ Open \/ OpenFails \/ Chunk \/ StreamFails \/ Finish
    \/ Tick

SpecDownload == InitDownload /\ [][NextDownload]_vars

\* the Content-Type of the response declares an HTML page (media types are
\* compared without regard to letter case)
DeclaresHtml(content_type) ==
    \E i \in 1..Len(content_type) :
        /\ i + Len(S_texthtml) - 1 <= Len(content_type)
        /\ Lower(SubSeq(content_type, i, i + Len(S_texthtml) - 1)) = S_texthtml

\* C3 as stated: once a call has returned, no zero-byte file that the call
\* created is in the directory.
C3_NoZeroByteFileLeft ==
    dl_pc = "returned" =>
        ~(created /\ filename \in DOMAIN fs /\ fs[filename] = <<>>)

\* C4: a file that exists at the derived path when a call starts keeps its
\* content throughout the call, and the call returns False.
C4_ExistingFileUntouched ==
    (dl_pc # "idle" /\ filename \in DOMAIN fs0) =>
        /\ filename \in DOMAIN fs
        /\ fs[filename] = fs0[filename]
        /\ dl_pc = "returned"
        /\ dl_ret = FALSE

\* a later call, for another url, derives the name of a file that an earlier
\* call of the run wrote, and leaves it alone
C4_Witness ==
    /\ dl_pc = "returned"
    /\ calls >= 2
    /\ dl_url = U_d_a_pdf
    /\ filename \in DOMAIN fs0
    /\ fs0[filename] = <<"c">>
    /\ fs[filename] = <<"c">>
    /\ dl_ret = FALSE

\* C5 as stated: an HTML response for a url that does not end with '.html'
\* makes the call return False with the files of the directory as before.
C5_HtmlRejectedUnlessDotHtml ==
    (/\ dl_pc # "idle"
     /\ dl_ct # None
     /\ DeclaresHtml(dl_ct)
     /\ ~EndsWith(dl_url, S_dothtml)) =>
        /\ dl_pc = "returned"
        /\ dl_ret = FALSE
        /\ DOMAIN fs = DOMAIN fs0

\* C5 amended: the same for a url that does not end with '.html' in any
\* letter case ('.HTML', '.Html', ...).
C5_HtmlRejectedUnlessDotHtmlAnyCase ==
    (/\ dl_pc # "idle"
     /\ dl_ct # None
     /\ DeclaresHtml(dl_ct)
     /\ ~EndsWith(Lower(dl_url), S_dothtml)) =>
        /\ dl_pc = "returned"
        /\ dl_ret = FALSE
        /\ DOMAIN fs = DOMAIN fs0

\* a successful response with an upper-case HTML content type for a pdf url
\* whose file did not exist: the call returned False and created nothing
C5_Witness ==
    /\ dl_pc = "returned"
    /\ dl_url = U_a_pdf
    /\ dl_ct = CT_HTML
    /\ ~(filename \in DOMAIN fs0)
    /\ dl_ret = FALSE
    /\ fs = fs0

----------------------------------------------------------------------------
(* main, after the credentials are settled: the search, the extraction of  *)
(* the urls, and the download loop.                                        *)

\* the loop "for result in results": the urls of the first k items that
\* yield one ("if url"), in result order
RECURSIVE ExtractAll(_, _, _)
ExtractAll(items, k, ext) ==
    IF k = 0 THEN <<>>
    ELSE LET url == ExtractFileUrl(items[k], ext)
         IN  IF url # None /\ url # <<>>
             THEN Append(ExtractAll(items, k - 1, ext), url)
             ELSE ExtractAll(items, k - 1, ext)

\* one iteration of the search loop inside main
MainSearchRequest(responses) ==
    /\ main_pc = "search"
    /\ \E resp \in responses : SearchIteration(resp)
    /\ UNCHANGED <<extractVars, dlVars, mainVars>>

\* search_files returns; "if not results: return"
MainSearchDone ==
    /\ main_pc = "search"
    /\ SearchReturn
    /\ main_pc' = IF ret' = <<>> THEN "done" ELSE "extract"
    /\ UNCHANGED <<file_urls, idx, downloaded, attempts, extractVars, dlVars>>

\* the urls are extracted; "if not file_urls: return"
MainExtract ==
    /\ main_pc = "extract"
    /\ file_urls' = ExtractAll(ret, Len(ret), extension)
    /\ main_pc' = IF file_urls' = <<>> THEN "done" ELSE "loop"
    /\ UNCHANGED <<idx, downloaded, attempts, searchVars, extractVars, dlVars>>

\* the next url of file_urls[:args.number] is handed to download_file
MainCall ==
    /\ main_pc = "loop"
    /\ idx < Len(Slice(file_urls, num_results))
    /\ DlBegin(Slice(file_urls, num_results)[idx + 1])
    /\ attempts' = Append(attempts, Slice(file_urls, num_results)[idx + 1])
    /\ main_pc' = "call"
    /\ UNCHANGED <<file_urls, idx, downloaded, searchVars, extractVars>>

\* download_file has returned: the counter, and time.sleep(1) before the next
\* url (the clock of a run of main advances by these delays)
MainAfterCall ==
    /\ main_pc = "call"
    /\ dl_pc = "returned"
    /\ downloaded' = IF dl_ret = TRUE THEN downloaded + 1 ELSE downloaded
    /\ now' = IF idx < Len(file_urls) - 1 THEN now + 1 ELSE now
    /\ idx' = idx + 1
    /\ main_pc' = "loop"
    /\ UNCHANGED <<file_urls, attempts, searchVars, extractVars>>
    /\ UNCHANGED <<fs, dl_pc, dl_url, filename, dl_ct, dl_ret, fs0, created, chunks, calls>>

\* the loop is over: "Download complete"
MainDone ==
    /\ main_pc = "loop"
    /\ idx >= Len(Slice(file_urls, num_results))
    /\ main_pc' = "done"
    /\ UNCHANGED <<file_urls, idx, downloaded, attempts, searchVars, extractVars, dlVars>>

\* SpecMain: a run of main for 'pdf' with a count of 0..MaxMainN, the API
\* answering with pages of up to MaxMainPage of the items below.
MainItems ==
    { ("link" :> U_a_pdf),
      ("link" :> U_d_a_pdf),
      ("link" :> U_x),
      ("link" :> U_xpdf),
      ("link" :> U_x) @@ ("pagemap" :> [metatags |-> <<("url" :> U_m_pdf)>>]) }

MainPages == UNION {[1..n -> MainItems] : n \in 0..MaxMainPage}

MainResponses ==
    {ItemsPage(p) : p \in MainPages}
    \cup {NoItemsPage} \cup {FailedPage(e) : e \in SearchFailures}

InitMain ==
    /\ num_results \in 0..MaxMainN
    /\ results = <<>> /\ reqs = <<>> /\ pages = <<>> /\ ret = <<>>
    /\ search_pc = "loop"
    /\ extension = S_pdf /\ result = <<>> /\ extracted = None /\ ex_pc = "idle"
    /\ fs \in InitialDirs
    /\ now = 0 /\ dl_pc = "idle" /\ dl_url = None /\ filename = None
    /\ dl_ct = None /\ dl_ret = None /\ fs0 = fs /\ created = FALSE /\ chunks = 0
    /\ calls = 0
    /\ main_pc = "search" /\ file_urls = <<>> /\ idx = 0 /\ downloaded = 0
    /\ attempts = <<>>

MainSearch == MainSearchRequest(MainResponses)

NextMain ==
    \/ MainSearch \/ MainSearchDone \/ MainExtract \/ MainCall
    \/ RequestFails \/ Response \/ Open \/ OpenFails \/ Chunk \/ StreamFails \/ Finish
    \/ MainAfterCall \/ MainDone

SpecMain == InitMain /\ [][NextMain]_vars

\* the items of the returned list that yield a url: an unchanged link, or a
\* metadata url
YieldsUrl(item) ==
    \/ /\ "link" \in DOMAIN item
       /\ Contains(Lower(extension), Lower(item["link"]))
    \/ \E i \in 1..Len(MetatagsOf(item)) : \E key \in DOMAIN MetatagsOf(item)[i] :
          EndsWith(Lower(MetatagsOf(item)[i][key]), <<".">> \o Lower(extension))

\* C6: download_file never lets an exception out, the attempts made are a
\* prefix of the extracted urls (result order, one attempt each), and when
\* main is done there was one attempt for each item that yielded a url.
C6_OneAttemptPerUrl ==
    /\ dl_pc # "raised"
    /\ Len(attempts) <= Len(file_urls)
    /\ \A i \in 1..Len(attempts) : attempts[i] = file_urls[i]
    /\ main_pc \in {"loop", "call", "done"} =>
          Len(file_urls) = Cardinality({i \in 1..Len(ret) : YieldsUrl(ret[i])})
    /\ main_pc = "done" => attempts = file_urls
    /\ (main_pc = "call" /\ dl_pc = "returned") => dl_ret \in BOOLEAN

\* two urls were extracted and both were attempted: one download failed with
\* an exception after its file was opened, the other succeeded
C6_Witness ==
    /\ main_pc = "done"
    /\ Len(ret) = 2
    /\ Len(attempts) = 2
    /\ attempts[1] # attempts[2]
    /\ downloaded = 1
    /\ \E n \in DOMAIN fs : fs[n] = <<>>

====
